---- MODULE Spec2Model ----
(***************************************************************************)
(* Model of src/app.py: the Streamlit script that compares the positions   *)
(* of a request (Anfrage, read from SQL Server) with the positions of a    *)
(* supplier offer (Angebot, an uploaded CSV file).                         *)
(*                                                                         *)
(* A DataFrame is a record [columns, rows]: columns is the sequence of     *)
(* column names, rows the sequence of row records.  pd.DataFrame() is the  *)
(* frame with no column and no row.  An uploaded file is a record          *)
(* [lines, pos]: the text as a sequence of lines (each a sequence of       *)
(* cells, the first one the header) and the stream's read position.        *)
(*                                                                         *)
(* Line 126 of src/app.py is a stray, over-indented                        *)
(* "return pd.DataFrame()" that belongs to no condition; compare_data is   *)
(* modelled as the statements around it (lines 118-124 and 128-162).       *)
(***************************************************************************)
EXTENDS Integers, Sequences, FiniteSets, TLC

VARIABLES
    pc,                     \* position in main / name of the last call
    pandas_outer_sorts,     \* whether this pandas orders an outer merge by key
    anfrage_id_filter,      \* st.sidebar.number_input("AnfrageID")
    db_configured,          \* the connection fields are filled (lines 203-206)
    compare_button,         \* st.sidebar.button("Comparer") of this run
    uploaded_file,          \* st.sidebar.file_uploader: None or [lines, pos]
    df_anfrage_raw,         \* what connect_db returned
    df_anfrage_display,     \* the grouped request
    df_angebot_display,     \* the grouped offer
    df_comparison_display,  \* the comparison table
    raised,                 \* the exception that left the last call, or "none"
    ui,                     \* the st.* elements emitted so far
    cache,                  \* st.cache_data's store for process_csv
    calls,                  \* the results of the calls made so far, in order
    held                    \* the inputs as the caller first handed them over

vars == <<pc, pandas_outer_sorts, anfrage_id_filter, db_configured,
          compare_button, uploaded_file, df_anfrage_raw, df_anfrage_display,
          df_angebot_display, df_comparison_display, raised, ui, cache,
          calls, held>>

----------------------------------------------------------------------------
(* Bounds of the model *)

\* largest quantity of one raw row
MaxQty == 2
\* most data rows of one raw input (database result, CSV file)
MaxRows == 2
\* most data rows of one raw input within a run of main
MaxRunRows == 1
\* most calls a caller repeats with the inputs it holds
MaxCalls == 2
\* most rows of a mapping handed to compare_data directly
MaxKeys == 2

----------------------------------------------------------------------------
(* Values *)

\* Python's None, where a file is expected
None == [none |-> TRUE]

\* a missing numeric value (the code only has quantities >= 0 besides it)
NaN == -1

\* a missing ArticleNumber cell
NA == ""

ArticleIds == {"A1", "B2", "C3"}

\* the lexicographic order of the identifiers (TLC does not order strings)
LexRank(a) == CASE a = "A1" -> 1 [] a = "B2" -> 2 [] a = "C3" -> 3 [] OTHER -> 0

Quantities == 0..MaxQty

\* a Quantity cell as the CSV text holds it
QuantityTexts == {ToString(n) : n \in Quantities} \cup {"abc"}

SeqsUpTo(S, n) == UNION {[1..k -> S] : k \in 0..n}

Range(s) == {s[i] : i \in DOMAIN s}

RECURSIVE SelectRows(_, _)
\* the subsequence of the rows for which keep[i] holds
SelectRows(rows, keep) ==
    IF rows = <<>> THEN <<>>
    ELSE LET rest == SelectRows(Tail(rows), Tail(keep))
         IN  IF Head(keep) THEN <<Head(rows)>> \o rest ELSE rest

\* pd.DataFrame()
EmptyDataFrame == [columns |-> <<>>, rows |-> <<>>]

\* DataFrame.empty: some axis has length 0
IsEmpty(df) == Len(df.columns) = 0 \/ Len(df.rows) = 0

HasColumn(df, c) == c \in Range(df.columns)

----------------------------------------------------------------------------
(* pandas: groupby(...).sum(), read_csv, to_numeric, dropna *)

RECURSIVE SumQuantity(_, _)
\* the sum of Quantity over the rows of one group, as sum() folds it
SumQuantity(rows, a) ==
    IF rows = <<>> THEN 0
    ELSE (IF Head(rows).ArticleNumber = a THEN Head(rows).Quantity ELSE 0)
         + SumQuantity(Tail(rows), a)

RECURSIVE SortedKeys(_)
\* a set of identifiers as the sequence in ascending lexicographic order
SortedKeys(S) ==
    IF S = {} THEN <<>>
    ELSE LET m == CHOOSE x \in S : \A y \in S : LexRank(x) <= LexRank(y)
         IN  <<m>> \o SortedKeys(S \ {m})

\* a faulty variant of groupby_sum: the last row of a group replaces its sum
groupby_last(df) ==
    LET keys == SortedKeys({r.ArticleNumber : r \in Range(df.rows)} \ {NA})
        last(a) == CHOOSE i \in DOMAIN df.rows :
                      /\ df.rows[i].ArticleNumber = a
                      /\ \A j \in DOMAIN df.rows :
                            df.rows[j].ArticleNumber = a => j <= i
    IN  [columns |-> <<"ArticleNumber", "Quantity">>,
         rows |-> [i \in 1..Len(keys) |->
                      [ArticleNumber |-> keys[i],
                       Quantity |-> df.rows[last(keys[i])].Quantity]]]

\* df.groupby('ArticleNumber', as_index=False)['Quantity'].sum(): one row per
\* key, keys in ascending order (sort=True), rows without a key left out
\* (dropna=True)
groupby_sum(df) ==
    LET keys == SortedKeys({r.ArticleNumber : r \in Range(df.rows)} \ {NA})
    IN  [columns |-> <<"ArticleNumber", "Quantity">>,
         rows |-> [i \in 1..Len(keys) |->
                      [ArticleNumber |-> keys[i],
                       Quantity |-> SumQuantity(df.rows, keys[i])]]]

\* the position of column c in a header line
ColumnIndex(header, c) == CHOOSE i \in DOMAIN header : header[i] = c

\* one data line as a row: the cell under each column name
ParseLine(header, line) ==
    [c \in Range(header) |-> line[ColumnIndex(header, c)]]

\* a faulty variant of read_csv: a header without data rows counts as an empty file
read_csv_needs_rows(file) ==
    LET rest == SubSeq(file.lines, file.pos + 1, Len(file.lines))
    IN  IF Len(rest) <= 1
        THEN [raised |-> "EmptyDataError", df |-> EmptyDataFrame]
        ELSE [raised |-> "none",
              df |-> [columns |-> rest[1],
                      rows |-> [i \in 1..(Len(rest) - 1) |->
                                   ParseLine(rest[1], rest[i + 1])]]]

\* pd.read_csv(file): reads what is left of the stream; no line left is
\* EmptyDataError ("No columns to parse from file"); otherwise the first line
\* read is the header and the others are the rows
read_csv(file) ==
    LET rest == SubSeq(file.lines, file.pos + 1, Len(file.lines))
    IN  IF rest = <<>>
        THEN [raised |-> "EmptyDataError", df |-> EmptyDataFrame]
        ELSE [raised |-> "none",
              df |-> [columns |-> rest[1],
                      rows |-> [i \in 1..(Len(rest) - 1) |->
                                   ParseLine(rest[1], rest[i + 1])]]]

\* a faulty variant of Consumed: reading leaves the stream where it was
NotConsumed(file) == file

\* the stream after read_csv: everything has been read
Consumed(file) == [file EXCEPT !.pos = Len(file.lines)]

\* the number a Quantity cell reads as, or NaN (errors='coerce')
ToNumber(text) ==
    IF \E n \in Quantities : ToString(n) = text
    THEN CHOOSE n \in Quantities : ToString(n) = text
    ELSE NaN

\* a faulty variant of to_numeric: a cell that is no number counts as 0
to_numeric_zero(df) ==
    [df EXCEPT !.rows = [i \in DOMAIN df.rows |->
        [df.rows[i] EXCEPT !.Quantity =
            IF ToNumber(@) = NaN THEN 0 ELSE ToNumber(@)]]]

\* df['Quantity'] = pd.to_numeric(df['Quantity'], errors='coerce')
to_numeric(df) ==
    [df EXCEPT !.rows = [i \in DOMAIN df.rows |->
        [df.rows[i] EXCEPT !.Quantity = ToNumber(@)]]]

\* df.dropna(subset=['Quantity']): the rows whose Quantity is a number
dropna(df) ==
    [df EXCEPT !.rows =
        SelectRows(df.rows, [i \in DOMAIN df.rows |-> df.rows[i].Quantity # NaN])]

----------------------------------------------------------------------------
(* process_csv *)

InfoNoFile == "Veuillez charger un fichier CSV pour l'offre."

ErrorColumns == "Le fichier CSV doit contenir les colonnes 'ArticleNumber' et 'Quantity'."

ErrorEmpty == "Le fichier CSV est vide."

\* a faulty variant of process_csv_body: only a file lacking both columns is refused
process_csv_body_and(file) ==
    IF file = None
    THEN [df |-> EmptyDataFrame, message |-> InfoNoFile, file |-> file]
    ELSE LET read == read_csv(file)
         IN  IF read.raised = "EmptyDataError"
             THEN [df |-> EmptyDataFrame, message |-> ErrorEmpty,
                   file |-> Consumed(file)]
             ELSE IF /\ ~HasColumn(read.df, "ArticleNumber")
                     /\ ~HasColumn(read.df, "Quantity")
             THEN [df |-> EmptyDataFrame, message |-> ErrorColumns,
                   file |-> Consumed(file)]
             ELSE IF ~HasColumn(read.df, "Quantity")
             THEN [df |-> EmptyDataFrame,
                   message |-> "Erreur lors du traitement du fichier CSV: 'Quantity'",
                   file |-> Consumed(file)]
             ELSE IF ~HasColumn(read.df, "ArticleNumber")
             THEN [df |-> EmptyDataFrame,
                   message |-> "Erreur lors du traitement du fichier CSV: 'ArticleNumber'",
                   file |-> Consumed(file)]
             ELSE [df |-> groupby_sum(dropna(to_numeric(read.df))),
                   message |-> "none", file |-> Consumed(file)]

\* the body of process_csv: the frame it returns, the st.info / st.error
\* message it emits ("none" when it emits none) and the stream afterwards.
\* The handler of line 100 needs an exception other than EmptyDataError, which
\* none of the files modelled raises.
process_csv_body(file) ==
    IF file = None
    THEN [df |-> EmptyDataFrame, message |-> InfoNoFile, file |-> file]
    ELSE LET read == read_csv(file)
         IN  IF read.raised = "EmptyDataError"
             THEN [df |-> EmptyDataFrame, message |-> ErrorEmpty,
                   file |-> Consumed(file)]
             ELSE IF \/ ~HasColumn(read.df, "ArticleNumber")
                     \/ ~HasColumn(read.df, "Quantity")
             THEN [df |-> EmptyDataFrame, message |-> ErrorColumns,
                   file |-> Consumed(file)]
             ELSE [df |-> groupby_sum(dropna(to_numeric(read.df))),
                   message |-> "none", file |-> Consumed(file)]

\* what st.cache_data hashes of the argument: an UploadedFile by its content
\* and its read position (the file name, one per content here, is left out)
CacheKey(file) ==
    IF file = None THEN <<<<>>, NaN>> ELSE <<file.lines, file.pos>>

\* process_csv as decorated with @st.cache_data: a key already stored returns
\* the stored frame and replays the stored message without running the body
\* (the stream is not read); otherwise the body runs and its result is stored
process_csv(file, store) ==
    LET key == CacheKey(file)
    IN  IF key \in DOMAIN store
        THEN [df |-> store[key].df, message |-> store[key].message,
              file |-> file, cache |-> store]
        ELSE LET out == process_csv_body(file)
             IN  [df |-> out.df, message |-> out.message, file |-> out.file,
                  cache |-> (key :> [df |-> out.df, message |-> out.message])
                            @@ store]

----------------------------------------------------------------------------
(* compare_data *)

StatusOk == "OK"

StatusDifferent == "Quantite differente"

StatusMissing == "Manquant"

StatusExtra == "En plus (Alternative ?)"

StatusError == "Erreur"

\* df.rename(columns={from: to}): a frame without the column is unchanged
rename(df, from, to) ==
    [columns |-> [i \in DOMAIN df.columns |->
                     IF df.columns[i] = from THEN to ELSE df.columns[i]],
     rows |-> [i \in DOMAIN df.rows |->
                  LET r == df.rows[i]
                  IN  IF from \in DOMAIN r
                      THEN [c \in (DOMAIN r \ {from}) \cup {to} |->
                               IF c = to THEN r[from] ELSE r[c]]
                      ELSE r]]

\* the keys of a frame, in the order of its rows
Keys(df) == [i \in DOMAIN df.rows |-> df.rows[i].ArticleNumber]

\* the cell of column col in the row of df with this key, NaN without one
Lookup(df, key, col) ==
    IF \E i \in DOMAIN df.rows : df.rows[i].ArticleNumber = key
    THEN df.rows[CHOOSE i \in DOMAIN df.rows :
                    df.rows[i].ArticleNumber = key][col]
    ELSE NaN

\* the keys of the left frame, then those only the right frame has
LeftFirstKeys(left, right) ==
    Keys(left) \o
    SelectRows(Keys(right),
               [i \in DOMAIN right.rows |-> Keys(right)[i] \notin Range(Keys(left))])

\* the order of an outer merge's rows for frames with one row per key: ascending
\* by key where pandas sorts an outer merge (as its documentation says, and as
\* it does since 2.2), the left frame's keys followed by the keys only the
\* right frame has where it does not (older versions, sort=False)
OuterKeys(left, right, sorts) ==
    IF sorts
    THEN SortedKeys(Range(Keys(left)) \cup Range(Keys(right)))
    ELSE LeftFirstKeys(left, right)

MergedRows(left, right, keys) ==
    [i \in DOMAIN keys |->
        [ArticleNumber |-> keys[i],
         Quantity_Anfrage |-> Lookup(left, keys[i], "Quantity_Anfrage"),
         Quantity_Angebot |-> Lookup(right, keys[i], "Quantity_Angebot")]]

\* a faulty variant of merge_outer: how='inner'
merge_inner(left, right, sorts) ==
    IF ~HasColumn(left, "ArticleNumber") \/ ~HasColumn(right, "ArticleNumber")
    THEN [raised |-> "KeyError", df |-> EmptyDataFrame]
    ELSE [raised |-> "none",
          df |-> [columns |-> <<"ArticleNumber", "Quantity_Anfrage", "Quantity_Angebot">>,
                  rows |-> MergedRows(left, right,
                              SelectRows(Keys(left),
                                  [i \in DOMAIN left.rows |->
                                      Keys(left)[i] \in Range(Keys(right))]))]]

\* a faulty variant of merge_outer: the right frame's keys come first
merge_right_first(left, right, sorts) ==
    IF ~HasColumn(left, "ArticleNumber") \/ ~HasColumn(right, "ArticleNumber")
    THEN [raised |-> "KeyError", df |-> EmptyDataFrame]
    ELSE [raised |-> "none",
          df |-> [columns |-> <<"ArticleNumber", "Quantity_Anfrage", "Quantity_Angebot">>,
                  rows |-> MergedRows(left, right, LeftFirstKeys(right, left))]]

\* pd.merge(left, right, on='ArticleNumber', how='outer') of two frames with
\* one row per key: KeyError when a frame has no ArticleNumber column; a key
\* one frame lacks gets NaN in that frame's columns
merge_outer(left, right, sorts) ==
    IF ~HasColumn(left, "ArticleNumber") \/ ~HasColumn(right, "ArticleNumber")
    THEN [raised |-> "KeyError", df |-> EmptyDataFrame]
    ELSE [raised |-> "none",
          df |-> [columns |-> <<"ArticleNumber", "Quantity_Anfrage", "Quantity_Angebot">>,
                  rows |-> MergedRows(left, right, OuterKeys(left, right, sorts))]]

\* a faulty variant of fillna: the missing values stay
fillna_nothing(df, col) == df

\* df[col] = df[col].fillna(0)
fillna(df, col) ==
    [df EXCEPT !.rows = [i \in DOMAIN df.rows |->
        [df.rows[i] EXCEPT ![col] = IF @ = NaN THEN 0 ELSE @]]]

\* np.select(conditions, results, default='Erreur') for one row: the result of
\* the first condition that holds
np_select(qa, qb) ==
    IF qa > 0 /\ qb > 0 /\ qa = qb THEN StatusOk
    ELSE IF qa > 0 /\ qb > 0 /\ qa # qb THEN StatusDifferent
    ELSE IF qa > 0 /\ qb = 0 THEN StatusMissing
    ELSE IF qa = 0 /\ qb > 0 THEN StatusExtra
    ELSE StatusError

\* df_merged['Resultat'] = np.select(...), then the four columns in order
with_result(df) ==
    [columns |-> <<"ArticleNumber", "Quantity_Anfrage", "Quantity_Angebot", "Resultat">>,
     rows |-> [i \in DOMAIN df.rows |->
                  [ArticleNumber |-> df.rows[i].ArticleNumber,
                   Quantity_Anfrage |-> df.rows[i].Quantity_Anfrage,
                   Quantity_Angebot |-> df.rows[i].Quantity_Angebot,
                   Resultat |-> np_select(df.rows[i].Quantity_Anfrage,
                                          df.rows[i].Quantity_Angebot)]]]

WarningNothing == "Aucune donnee de demande ou d'offre a comparer."

\* compare_data: the table it returns and the exception that leaves it ("none"
\* when it returns), for frames with one row per ArticleNumber
compare_data(df_anfrage, df_angebot, sorts) ==
    IF IsEmpty(df_anfrage) /\ IsEmpty(df_angebot)
    THEN [raised |-> "none", df |-> EmptyDataFrame, message |-> WarningNothing]
    ELSE LET a == rename(rename(df_anfrage, "Quantity", "Quantity_Anfrage"),
                         "Quantity", "Quantity_Anfrage")
             b == rename(rename(df_angebot, "Quantity", "Quantity_Angebot"),
                         "Quantity", "Quantity_Angebot")
             merged == merge_outer(a, b, sorts)
         IN  IF merged.raised # "none"
             THEN [raised |-> merged.raised, df |-> EmptyDataFrame, message |-> "none"]
             ELSE [raised |-> "none",
                   df |-> with_result(fillna(fillna(merged.df, "Quantity_Anfrage"),
                                             "Quantity_Angebot")),
                   message |-> "none"]

----------------------------------------------------------------------------
(* The inputs *)

\* what connect_db returns: pd.DataFrame() after an error, otherwise the rows
\* of Anfrage_Positionen the query selects (none when the id matches nothing)
ConnectResults(n) ==
    {EmptyDataFrame} \cup
    {[columns |-> <<"AnfrageID", "ArticleNumber", "Quantity">>, rows |-> r] :
        r \in SeqsUpTo([AnfrageID : {1}, ArticleNumber : ArticleIds,
                        Quantity : Quantities], n)}

Headers == {<<"ArticleNumber", "Quantity">>, <<"ArticleNumber">>,
            <<"Quantity">>, <<"Ref">>}

\* the cells a column of the CSV text may hold
Cells(c) ==
    CASE c = "ArticleNumber" -> ArticleIds \cup {NA}
      [] c = "Quantity" -> QuantityTexts
      [] OTHER -> {"x"}

DataLines(h) ==
    IF Len(h) = 2
    THEN {<<a, b>> : a \in Cells(h[1]), b \in Cells(h[2])}
    ELSE {<<a>> : a \in Cells(h[1])}

\* the CSV texts: the empty text, or a header line and up to n data lines
Texts(n) ==
    {<<>>} \cup
    UNION {{<<h>> \o d : d \in SeqsUpTo(DataLines(h), n)} : h \in Headers}

\* a file as the uploader hands it over: the stream at its start
UploadedFiles(n) == {[lines |-> t, pos |-> 0] : t \in Texts(n)}

Injective(s) == \A i, j \in DOMAIN s : s[i] = s[j] => i = j

\* the quantities of a mapping handed to compare_data: zero and two different
\* positive ones, which is every case the conditions of lines 141-144 tell apart
MappingQuantities == {0, 1, 2}

\* the frames with one row per ArticleNumber, rows in any order, and
\* pd.DataFrame()
MappingFrames(n) ==
    {EmptyDataFrame} \cup
    UNION {{[columns |-> <<"ArticleNumber", "Quantity">>,
             rows |-> [i \in DOMAIN k |-> [ArticleNumber |-> k[i], Quantity |-> q[i]]]] :
               q \in [DOMAIN k -> MappingQuantities]} :
           k \in {s \in SeqsUpTo(ArticleIds, n) : Injective(s)}}

----------------------------------------------------------------------------
(* main: one run of the script *)

\* lines 209-211: the request is grouped only when connect_db returned rows
normalize_request(raw) ==
    IF ~IsEmpty(raw) THEN groupby_sum(raw) ELSE EmptyDataFrame

Idle ==
    /\ anfrage_id_filter = 0
    /\ db_configured = FALSE
    /\ compare_button = FALSE
    /\ uploaded_file = None
    /\ df_anfrage_raw = EmptyDataFrame
    /\ df_anfrage_display = EmptyDataFrame
    /\ df_angebot_display = EmptyDataFrame
    /\ df_comparison_display = EmptyDataFrame
    /\ raised = "none"
    /\ ui = {}
    /\ cache = <<>>
    /\ calls = <<>>
    /\ held = <<>>

\* lines 172-197: the widgets of the sidebar are read, the frames are empty
Init ==
    /\ pc = "load_anfrage"
    /\ pandas_outer_sorts \in BOOLEAN
    /\ anfrage_id_filter \in {0, 1}
    /\ db_configured \in BOOLEAN
    /\ compare_button = FALSE
    /\ uploaded_file \in {None} \cup UploadedFiles(MaxRunRows)
    /\ df_anfrage_raw = EmptyDataFrame
    /\ df_anfrage_display = EmptyDataFrame
    /\ df_angebot_display = EmptyDataFrame
    /\ df_comparison_display = EmptyDataFrame
    /\ raised = "none"
    /\ ui = {}
    /\ cache = <<>>
    /\ calls = <<>>
    /\ held = <<>>

\* lines 199-213
LoadAnfrage ==
    /\ pc = "load_anfrage"
    /\ pc' = "load_angebot"
    /\ IF anfrage_id_filter > 0 /\ db_configured
       THEN \E result \in ConnectResults(MaxRunRows) :
               /\ df_anfrage_raw' = result
               /\ df_anfrage_display' = normalize_request(result)
       ELSE UNCHANGED <<df_anfrage_raw, df_anfrage_display>>
    /\ UNCHANGED <<pandas_outer_sorts, anfrage_id_filter, db_configured,
                   compare_button, uploaded_file, df_angebot_display,
                   df_comparison_display, raised, ui, cache, calls, held>>

\* lines 215-218
LoadAngebot ==
    /\ pc = "load_angebot"
    /\ pc' = "display"
    /\ IF uploaded_file # None
       THEN LET out == process_csv(uploaded_file, cache)
            IN  /\ df_angebot_display' = out.df
                /\ uploaded_file' = out.file
                /\ cache' = out.cache
                /\ ui' = ui \cup ({out.message} \ {"none"})
                /\ calls' = Append(calls, [fn |-> "process_csv",
                                           message |-> out.message])
       ELSE UNCHANGED <<df_angebot_display, uploaded_file, cache, ui, calls>>
    /\ UNCHANGED <<pandas_outer_sorts, anfrage_id_filter, db_configured,
                   compare_button, df_anfrage_raw, df_anfrage_display,
                   df_comparison_display, raised, held>>

\* lines 220-239: the two columns
Display ==
    /\ pc = "display"
    /\ pc' = "compare"
    /\ ui' = ui
             \cup (IF ~IsEmpty(df_anfrage_display) THEN {"dataframe Anfrage"}
                   ELSE IF anfrage_id_filter > 0 THEN {"info Anfrage: aucune donnee"}
                   ELSE {"info Anfrage: entrer une AnfrageID"})
             \cup (IF ~IsEmpty(df_angebot_display) THEN {"dataframe Angebot"}
                   ELSE IF uploaded_file # None THEN {"info Angebot: CSV non traite"}
                   ELSE {"info Angebot: charger un CSV"})
    /\ UNCHANGED <<pandas_outer_sorts, anfrage_id_filter, db_configured,
                   compare_button, uploaded_file, df_anfrage_raw,
                   df_anfrage_display, df_angebot_display,
                   df_comparison_display, raised, cache, calls, held>>

\* a faulty variant of MayCompare: one loaded side is enough
MayCompareEither(a, b) == ~IsEmpty(a) \/ ~IsEmpty(b)

\* line 247: the condition under which main calls compare_data
MayCompare(a, b) == ~IsEmpty(a) /\ ~IsEmpty(b)

\* lines 241-295: the button and the comparison
Compare ==
    /\ pc = "compare"
    /\ \E clicked \in BOOLEAN :
         /\ compare_button' = clicked
         /\ IF clicked /\ MayCompare(df_anfrage_display, df_angebot_display)
            THEN LET out == compare_data(df_anfrage_display, df_angebot_display,
                                         pandas_outer_sorts)
                 IN  /\ calls' = Append(calls, [fn |-> "compare_data",
                                                message |-> out.message])
                     /\ raised' = out.raised
                     /\ pc' = IF out.raised = "none" THEN "done" ELSE "aborted"
                     /\ df_comparison_display' = out.df
                     /\ ui' = ui \cup {"success"}
                              \cup (IF out.raised # "none" THEN {}
                                    ELSE IF ~IsEmpty(out.df)
                                    THEN {"header Tableau Comparatif",
                                          "dataframe Tableau Comparatif",
                                          "download_button"}
                                    ELSE {"header Tableau Comparatif",
                                          "info aucun resultat"})
            ELSE /\ pc' = "done"
                 /\ ui' = ui \cup (IF clicked THEN {"warning donnees manquantes"}
                                   ELSE {"header Tableau Comparatif", "info attente"})
                 /\ UNCHANGED <<calls, raised, df_comparison_display>>
    /\ UNCHANGED <<pandas_outer_sorts, anfrage_id_filter, db_configured,
                   uploaded_file, df_anfrage_raw, df_anfrage_display,
                   df_angebot_display, cache, held>>

Next == LoadAnfrage \/ LoadAngebot \/ Display \/ Compare

Spec == Init /\ [][Next]_vars

----------------------------------------------------------------------------
(* A caller of the three functions: it takes hold of the inputs of one of   *)
(* them, calls it, and may call it again with what it then holds.           *)

InitCaller ==
    /\ pc = "idle"
    /\ pandas_outer_sorts \in BOOLEAN
    /\ Idle

\* the caller holds the result of connect_db
HoldRequest(S) ==
    /\ pc = "idle"
    /\ pc' = "normalize_request"
    /\ \E raw \in S :
         /\ df_anfrage_raw' = raw
         /\ held' = <<raw>>
    /\ UNCHANGED <<pandas_outer_sorts, anfrage_id_filter, db_configured,
                   compare_button, uploaded_file, df_anfrage_display,
                   df_angebot_display, df_comparison_display, raised, ui,
                   cache, calls>>

\* the caller holds an uploaded file
HoldFile(S) ==
    /\ pc = "idle"
    /\ pc' = "process_csv"
    /\ \E file \in S :
         /\ uploaded_file' = file
         /\ held' = <<file>>
    /\ UNCHANGED <<pandas_outer_sorts, anfrage_id_filter, db_configured,
                   compare_button, df_anfrage_raw, df_anfrage_display,
                   df_angebot_display, df_comparison_display, raised, ui,
                   cache, calls>>

\* the caller holds two mappings
HoldMappings(S) ==
    /\ pc = "idle"
    /\ pc' = "compare_data"
    /\ \E a \in S, b \in S :
         /\ df_anfrage_display' = a
         /\ df_angebot_display' = b
         /\ held' = <<a, b>>
    /\ UNCHANGED <<pandas_outer_sorts, anfrage_id_filter, db_configured,
                   compare_button, uploaded_file, df_anfrage_raw,
                   df_comparison_display, raised, ui, cache, calls>>

\* the request normalization of main (lines 209-211) on the rows held
CallNormalizeRequest(limit) ==
    /\ pc = "normalize_request"
    /\ Len(calls) < limit
    /\ df_anfrage_display' = normalize_request(df_anfrage_raw)
    /\ calls' = Append(calls, [input |-> <<df_anfrage_raw>>,
                               result |-> normalize_request(df_anfrage_raw)])
    /\ UNCHANGED <<pc, pandas_outer_sorts, anfrage_id_filter, db_configured,
                   compare_button, uploaded_file, df_anfrage_raw,
                   df_angebot_display, df_comparison_display, raised, ui,
                   cache, held>>

\* process_csv(uploaded_file)
CallProcessCsv(limit) ==
    /\ pc = "process_csv"
    /\ Len(calls) < limit
    /\ LET out == process_csv(uploaded_file, cache)
       IN  /\ df_angebot_display' = out.df
           /\ uploaded_file' = out.file
           /\ cache' = out.cache
           /\ ui' = ui \cup ({out.message} \ {"none"})
           /\ calls' = Append(calls, [input |-> <<uploaded_file>>,
                                      after |-> out.file,
                                      result |-> [df |-> out.df,
                                                  message |-> out.message]])
    /\ UNCHANGED <<pc, pandas_outer_sorts, anfrage_id_filter, db_configured,
                   compare_button, df_anfrage_raw, df_anfrage_display,
                   df_comparison_display, raised, held>>

\* compare_data(df_anfrage, df_angebot)
CallCompareData(limit) ==
    /\ pc = "compare_data"
    /\ Len(calls) < limit
    /\ LET out == compare_data(df_anfrage_display, df_angebot_display,
                               pandas_outer_sorts)
       IN  /\ df_comparison_display' = out.df
           /\ raised' = out.raised
           /\ ui' = ui \cup ({out.message} \ {"none"})
           /\ calls' = Append(calls, [input |-> <<df_anfrage_display,
                                                  df_angebot_display>>,
                                      result |-> [df |-> out.df,
                                                  raised |-> out.raised]])
    /\ UNCHANGED <<pc, pandas_outer_sorts, anfrage_id_filter, db_configured,
                   compare_button, uploaded_file, df_anfrage_raw,
                   df_anfrage_display, df_angebot_display, cache, held>>

\* the caller rewinds the stream it holds (or is handed the same upload as a
\* new stream)
Rewind ==
    /\ pc = "process_csv"
    /\ uploaded_file # None
    /\ uploaded_file.pos # 0
    /\ Len(calls) < MaxCalls
    /\ uploaded_file' = [uploaded_file EXCEPT !.pos = 0]
    /\ UNCHANGED <<pc, pandas_outer_sorts, anfrage_id_filter, db_configured,
                   compare_button, df_anfrage_raw, df_anfrage_display,
                   df_angebot_display, df_comparison_display, raised, ui,
                   cache, calls, held>>

\* one call of one function, on any input
NextCalls ==
    \/ HoldRequest(ConnectResults(MaxRows))
    \/ HoldFile({None} \cup UploadedFiles(MaxRows))
    \/ HoldMappings(MappingFrames(MaxKeys))
    \/ CallNormalizeRequest(1)
    \/ CallProcessCsv(1)
    \/ CallCompareData(1)

SpecCalls == InitCaller /\ [][NextCalls]_vars

\* repeated calls of one function
NextRepeat ==
    \/ HoldRequest(ConnectResults(MaxRunRows))
    \/ HoldFile(UploadedFiles(MaxRunRows))
    \/ HoldMappings(MappingFrames(MaxRunRows))
    \/ CallNormalizeRequest(MaxCalls)
    \/ CallProcessCsv(MaxCalls)
    \/ CallCompareData(MaxCalls)
    \/ Rewind

SpecRepeat == InitCaller /\ [][NextRepeat]_vars

----------------------------------------------------------------------------
(* What the properties are stated with *)

Called == calls # <<>>

\* a frame with the two columns compare_data's docstring requires
Canonical(df) == df.columns = <<"ArticleNumber", "Quantity">>

KeySet(df) == {df.rows[i].ArticleNumber : i \in DOMAIN df.rows}

RowsOf(df, a) == {i \in DOMAIN df.rows : df.rows[i].ArticleNumber = a}

RECURSIVE SumOver(_, _)
\* the sum of q[i] over the indices i of S
SumOver(S, q) ==
    IF S = {} THEN 0
    ELSE LET i == CHOOSE x \in S : TRUE
         IN  q[i] + SumOver(S \ {i}, q)

\* the data lines of the file first held
HeldLines == Tail(held[1].lines)

\* the file first held has a header with both required columns
HeldHasBothColumns ==
    /\ held[1] # None
    /\ held[1].lines # <<>>
    /\ held[1].lines[1] = <<"ArticleNumber", "Quantity">>

IsNumberText(t) == \E n \in Quantities : ToString(n) = t

\* the data lines of the file first held that name article a and whose
\* Quantity cell is a number
Surviving(a) ==
    {i \in DOMAIN HeldLines : HeldLines[i][1] = a /\ IsNumberText(HeldLines[i][2])}

NumberOf(t) == CHOOSE n \in Quantities : ToString(n) = t

\* the mapping m has at most one row per identifier, has a row for exactly the
\* identifiers of S, and each row's quantity is total(a)
IsMappingOf(m, S, total(_)) ==
    /\ Canonical(m)
    /\ \A a \in ArticleIds :
          /\ Cardinality(RowsOf(m, a)) = (IF a \in S THEN 1 ELSE 0)
          /\ \A i \in RowsOf(m, a) : m.rows[i].Quantity = total(a)
    /\ KeySet(m) \subseteq ArticleIds

----------------------------------------------------------------------------
(* Properties of compare_data, under SpecCalls *)

ComparedCanonical ==
    /\ pc = "compare_data"
    /\ Called
    /\ Canonical(df_anfrage_display)
    /\ Canonical(df_angebot_display)

RequestedFirst(t, a, b) ==
    /\ Len(t) >= Len(a.rows)
    /\ \A i \in DOMAIN a.rows : t[i] = a.rows[i].ArticleNumber
    /\ \A i, j \in DOMAIN b.rows :
          (i < j /\ {b.rows[i].ArticleNumber, b.rows[j].ArticleNumber}
                       \cap KeySet(a) = {}) =>
             \E m, n \in DOMAIN t :
                /\ m < n
                /\ t[m] = b.rows[i].ArticleNumber
                /\ t[n] = b.rows[j].ArticleNumber

Ascending(t) == \A i, j \in DOMAIN t : i < j => LexRank(t[i]) < LexRank(t[j])

\* C8 as the specification states it: the rows are the requested mapping's
\* articles in its order, then the articles only the offered mapping has in
\* its order, whatever the lexicographic order of the identifiers.
RowsRequestedFirst ==
    ComparedCanonical =>
        RequestedFirst(Keys(df_comparison_display), df_anfrage_display,
                       df_angebot_display)

\* C8 amended: the rows are in the order of pandas' outer merge: ascending by
\* article identifier where pandas sorts the keys of an outer merge, and the
\* requested mapping's articles followed by those only the offered mapping
\* has where it does not.
RowsInMergeOrder ==
    ComparedCanonical =>
        IF pandas_outer_sorts
        THEN Ascending(Keys(df_comparison_display))
        ELSE RequestedFirst(Keys(df_comparison_display), df_anfrage_display,
                            df_angebot_display)

RowsInMergeOrderWitness ==
    /\ ComparedCanonical
    /\ pandas_outer_sorts
    /\ Keys(df_anfrage_display) = <<"B2">>
    /\ Keys(df_angebot_display) = <<"C3", "A1">>
    /\ Keys(df_comparison_display) = <<"A1", "B2", "C3">>

----------------------------------------------------------------------------
(* Properties of the two normalizations, under SpecCalls *)

\* the rows connect_db returned that name article a
RawRowsOf(a) == RowsOf(df_anfrage_raw, a)

RawTotal(a) ==
    SumOver(RawRowsOf(a), [i \in DOMAIN df_anfrage_raw.rows |->
                              df_anfrage_raw.rows[i].Quantity])

SurvivingTotal(a) ==
    SumOver(Surviving(a), [i \in DOMAIN HeldLines |-> NumberOf(HeldLines[i][2])])

\* C4: the grouping of the request in main and process_csv both give a mapping
\* with at most one row per article identifier, whose quantity is the sum of
\* the quantities of the raw rows with that identifier that survive; a request
\* without rows gives the empty mapping and no error.
AggregationCorrect ==
    /\ (pc = "normalize_request" /\ Called) =>
          /\ raised = "none"
          /\ ui = {}
          /\ IF Len(df_anfrage_raw.rows) = 0
             THEN df_anfrage_display.rows = <<>>
             ELSE IsMappingOf(df_anfrage_display,
                              {a \in ArticleIds : RawRowsOf(a) # {}}, RawTotal)
    /\ (pc = "process_csv" /\ Called /\ HeldHasBothColumns) =>
          IsMappingOf(df_angebot_display,
                      {a \in ArticleIds : Surviving(a) # {}}, SurvivingTotal)

AggregationCorrectWitness ==
    /\ pc = "process_csv"
    /\ Called
    /\ HeldHasBothColumns
    /\ Len(HeldLines) = 2
    /\ Len(df_angebot_display.rows) = 1
    /\ df_angebot_display.rows[1].Quantity > MaxQty

HeaderOnlyIsEmptyInputError ==
    (/\ pc = "process_csv"
     /\ Called
     /\ HeldHasBothColumns
     /\ HeldLines = <<>>) =>
        /\ calls[1].result.message # "none"
        /\ ui # {}

\* C6 amended: a header with both required columns and no data row makes
\* process_csv return the mapping without rows as a normal result, with no
\* message; the empty-file error is reported exactly when the text has no
\* line at all, and pd.DataFrame() is returned then.
HeaderOnlyIsEmptyMapping ==
    (pc = "process_csv" /\ Called /\ held[1] # None) =>
        /\ (HeldHasBothColumns /\ HeldLines = <<>>) =>
              /\ calls[1].result.message = "none"
              /\ ui = {}
              /\ Canonical(df_angebot_display)
              /\ df_angebot_display.rows = <<>>
        /\ (calls[1].result.message = ErrorEmpty) <=> (held[1].lines = <<>>)
        /\ (held[1].lines = <<>>) => df_angebot_display = EmptyDataFrame

HeaderOnlyIsEmptyMappingWitness ==
    /\ pc = "process_csv"
    /\ Called
    /\ HeldHasBothColumns
    /\ HeldLines = <<>>
    /\ Canonical(df_angebot_display)
    /\ ui = {}

\* C7: in process_csv a row whose Quantity is not a number is dropped without
\* any error and adds nothing to any sum, a row whose Quantity is a number
\* counts in the sum of its article, and an article all of whose rows are
\* dropped has no row in the mapping (rather than a row with quantity 0).
UnparseableRowsDropped ==
    (pc = "process_csv" /\ Called /\ HeldHasBothColumns) =>
        /\ calls[1].result.message = "none"
        /\ ui = {}
        /\ raised = "none"
        /\ \A a \in ArticleIds :
              /\ (a \in KeySet(df_angebot_display)) <=> (Surviving(a) # {})
              /\ \A i \in RowsOf(df_angebot_display, a) :
                    df_angebot_display.rows[i].Quantity = SurvivingTotal(a)
        /\ \A i \in DOMAIN df_angebot_display.rows :
              df_angebot_display.rows[i].Quantity # NaN

UnparseableRowsDroppedWitness ==
    /\ pc = "process_csv"
    /\ Called
    /\ HeldHasBothColumns
    /\ HeldLines = <<(<<"A1", "abc">>), (<<"B2", "2">>)>>
    /\ Keys(df_angebot_display) = <<"B2">>
    /\ df_angebot_display.rows[1].Quantity = 2

----------------------------------------------------------------------------
(* Properties of main, under Spec *)

CompareDataCalled == \E i \in DOMAIN calls : calls[i].fn = "compare_data"

TableRows == df_comparison_display.rows

\* C2 as the specification states it: every row of the table carries one of
\* the four statuses OK, Quantite differente, Manquant, En plus, the one the
\* rules a-d select, and never the fallback status Erreur.
NeverUnclassified ==
    \A i \in DOMAIN TableRows :
        LET r == TableRows[i]
        IN  /\ r.Resultat # StatusError
            /\ r.Resultat \in {StatusOk, StatusDifferent, StatusMissing, StatusExtra}
            /\ (r.Resultat = StatusOk) <=>
                  (r.Quantity_Anfrage > 0 /\ r.Quantity_Angebot > 0
                   /\ r.Quantity_Anfrage = r.Quantity_Angebot)
            /\ (r.Resultat = StatusDifferent) <=>
                  (r.Quantity_Anfrage > 0 /\ r.Quantity_Angebot > 0
                   /\ r.Quantity_Anfrage # r.Quantity_Angebot)
            /\ (r.Resultat = StatusMissing) <=>
                  (r.Quantity_Anfrage > 0 /\ r.Quantity_Angebot = 0)
            /\ (r.Resultat = StatusExtra) <=>
                  (r.Quantity_Anfrage = 0 /\ r.Quantity_Angebot > 0)

\* C9: compare_data is called only in a run in which the button was clicked
\* and both the grouped request and the grouped offer have rows; once
\* process_csv has refused a file for its columns, the run calls compare_data
\* never and shows neither a comparison table nor a download.
CompareOnlyWhenBothLoaded ==
    /\ CompareDataCalled =>
          /\ compare_button
          /\ pc \in {"done", "aborted"}
          /\ ~IsEmpty(df_anfrage_display)
          /\ ~IsEmpty(df_angebot_display)
    /\ ErrorColumns \in ui =>
          /\ ~CompareDataCalled
          /\ df_comparison_display = EmptyDataFrame
          /\ "dataframe Tableau Comparatif" \notin ui
          /\ "download_button" \notin ui
    /\ "download_button" \in ui => CompareDataCalled

CompareOnlyWhenBothLoadedWitness ==
    /\ pc = "done"
    /\ compare_button
    /\ uploaded_file # None
    /\ Len(uploaded_file.lines) = 2
    /\ uploaded_file.lines[1] = <<"ArticleNumber">>
    /\ ErrorColumns \in ui
    /\ ~IsEmpty(df_anfrage_display)
    /\ ~CompareDataCalled

----------------------------------------------------------------------------
(* Properties of repeated calls, under SpecRepeat *)

\* what the caller holds now as the inputs of the function it calls
InputsNow ==
    CASE pc = "normalize_request" -> <<df_anfrage_raw>>
      [] pc = "process_csv" -> <<uploaded_file>>
      [] pc = "compare_data" -> <<df_anfrage_display, df_angebot_display>>
      [] OTHER -> held

SameResults == \A i, j \in DOMAIN calls : calls[i].result = calls[j].result

====
